---- MODULE Spec2Model ----
(***************************************************************************)
(* Model of mgrt: the revision Collection (a binary tree keyed by the Unix *)
(* time of the revision ID) and the execution engine that performs         *)
(* revisions against a database and records them in mgrt_revisions.        *)
(***************************************************************************)
EXTENDS Integers, Sequences, FiniteSets, Bags, TLC

(***************************************************************************)
(* Bounds of the model.                                                    *)
(***************************************************************************)
\* longest argument list given to PerformRevisions
MaxBatch == 3
\* largest number of Put calls made on the stand-alone Collection
MaxPuts == 4
\* cap on the number of times the SQL of one revision is executed
MaxExec == 2

(***************************************************************************)
(* Revision IDs.  The IDs the model uses, and the characters of each, so   *)
(* that time.Parse is computed character by character.                     *)
(***************************************************************************)
ID_Jan == "20240101000000"
ID_Feb == "20240202000000"
ID_Mar == "20240303120000"
ID_Bogus == "bogus"
ID_Empty == ""

ValidIDs == {ID_Jan, ID_Feb, ID_Mar}
IDs == ValidIDs \cup {ID_Bogus, ID_Empty}

\* []rune(id)
Runes ==
  [id \in IDs |->
     CASE id = ID_Jan -> <<"2","0","2","4","0","1","0","1","0","0","0","0","0","0">>
       [] id = ID_Feb -> <<"2","0","2","4","0","2","0","2","0","0","0","0","0","0">>
       [] id = ID_Mar -> <<"2","0","2","4","0","3","0","3","1","2","0","0","0","0">>
       [] id = ID_Bogus -> <<"b","o","g","u","s">>
       [] id = ID_Empty -> <<>>]

DigitVal ==
  [c \in {"0", "1", "2", "3", "4", "5", "6", "7", "8", "9"} |->
     CASE c = "0" -> 0 [] c = "1" -> 1 [] c = "2" -> 2 [] c = "3" -> 3
       [] c = "4" -> 4 [] c = "5" -> 5 [] c = "6" -> 6 [] c = "7" -> 7
       [] c = "8" -> 8 [] c = "9" -> 9]

isDigit(s, i) == i <= Len(s) /\ s[i] \in DOMAIN DigitVal

\* the number written by the two characters of s starting at i
Num2(s, i) == 10 * DigitVal[s[i]] + DigitVal[s[i + 1]]

Num4(s, i) == 100 * Num2(s, i) + Num2(s, i + 2)

isLeap(year) == year % 4 = 0 /\ (year % 100 # 0 \/ year % 400 = 0)

daysIn(month, year) ==
  CASE month = 2 -> IF isLeap(year) THEN 29 ELSE 28
    [] month \in {4, 6, 9, 11} -> 30
    [] OTHER -> 31

\* days from the first of January to the first day of the month
daysBefore(month, year) ==
  LET cum == <<0, 31, 59, 90, 120, 151, 181, 212, 243, 273, 304, 334>>
  IN  cum[month] + (IF month > 2 /\ isLeap(year) THEN 1 ELSE 0)

\* leap years among the years 1 .. year
leapsUpTo(year) == (year \div 4) - (year \div 100) + (year \div 400)

\* days from 1970-01-01 to the given date
daysSinceEpoch(year, month, day) ==
  365 * (year - 1970) + (leapsUpTo(year - 1) - leapsUpTo(1969))
    + daysBefore(month, year) + (day - 1)

\* time.Parse(revisionIdFormat, s) succeeds, revisionIdFormat being
\* "20060102150405": a four digit year, two digit month, day, hour, minute and
\* second, each in range; after the seconds a fraction ("." and digits) is
\* accepted although the layout has none, other trailing text is an error.
parseOk(s) ==
  /\ Len(s) >= 14
  /\ \A i \in 1..14 : isDigit(s, i)
  /\ Num2(s, 5) \in 1..12
  /\ Num2(s, 7) \in 1..daysIn(Num2(s, 5), Num4(s, 1))
  /\ Num2(s, 9) \in 0..23
  /\ Num2(s, 11) \in 0..59
  /\ Num2(s, 13) \in 0..59
  /\ \/ Len(s) = 14
     \/ /\ Len(s) >= 16
        /\ s[15] = "."
        /\ \A i \in 16..Len(s) : isDigit(s, i)

\* the Unix seconds of the time (UTC) written by the characters s
unixOf(s) ==
  daysSinceEpoch(Num4(s, 1), Num2(s, 5), Num2(s, 7)) * 86400
    + Num2(s, 9) * 3600 + Num2(s, 11) * 60 + Num2(s, 13)

\* _, err := time.Parse(revisionIdFormat, id); err == nil
timeParseOk(id) == parseOk(Runes[id])

\* t.Unix() for t, _ := time.Parse(revisionIdFormat, id)
Unix(id) == unixOf(Runes[id])

\* the SQL of a revision: empty, or a statement
SQLs == {"", "q"}

\* type Revision struct (ID and SQL; Author and Comment play no part in the
\* Collection or in the control flow of the engine)
Revisions == [ID : IDs, SQL : SQLs]

\* the revisions put in the Collection that is used on its own
CollRevisions ==
  [ID : ValidIDs, SQL : SQLs] \cup [ID : {ID_Bogus, ID_Empty}, SQL : {"q"}]

\* &Revision{ID: id, SQL: sql}
Revision(id, sql) == [ID |-> id, SQL |-> sql]

\* the revisions the caller hands to the engine
EngineRevisions ==
  {Revision(ID_Jan, "q"), Revision(ID_Mar, "q"), Revision(ID_Jan, ""),
   Revision(ID_Bogus, "q"), Revision(ID_Bogus, "")}

\* the IDs of the revisions handed to the engine
EngineIDs == {r.ID : r \in EngineRevisions}

\* the revisions the caller hands to PerformRevisions
BatchRevisions == EngineRevisions \ {Revision(ID_Bogus, "")}

(***************************************************************************)
(* Errors.                                                                 *)
(***************************************************************************)
Nil == [t |-> "nil"]

ErrInvalid == [t |-> "ErrInvalid"]

ErrPerformed == [t |-> "ErrPerformed"]

\* an error returned by the SQL driver for the named call
DriverError(call) == [t |-> "driver", call |-> call]

RevisionError(id, err) == [t |-> "RevisionError", ID |-> id, Err |-> err]

\* a run-time panic (nil pointer dereference) unwinding the call
Panic == [t |-> "panic"]

\* errors.Is(err, target): err or an error in its Unwrap chain equals target
RECURSIVE errorsIs(_, _)
errorsIs(err, target) ==
  \/ err = target
  \/ err.t = "RevisionError" /\ errorsIs(err.Err, target)

\* func (e Errors) err() error
Errors_err(e) == IF Len(e) = 0 THEN Nil ELSE [t |-> "Errors", errs |-> e]

(***************************************************************************)
(* Collection: a binary tree held in a heap of nodes; a pointer is an      *)
(* index into the heap and 0 is the nil pointer.                           *)
(***************************************************************************)
\* type node struct
node(val, rev) == [val |-> val, rev |-> rev, left |-> 0, right |-> 0]

\* the zero value "var c Collection"
EmptyCollection == [len |-> 0, root |-> 0, heap |-> <<>>]

\* insertNode(n, val, r), n being the pointer stored in the slot that is
\* passed by address: the result is the new heap and the new pointer of the slot
\* insertNode with the comparison turned round: smaller keys go right
RECURSIVE insertNodeDesc(_, _, _, _)
insertNodeDesc(heap, n, val, r) ==
  IF n = 0
    THEN [heap |-> Append(heap, node(val, r)), n |-> Len(heap) + 1]
    ELSE IF val > heap[n].val
      THEN LET sub == insertNodeDesc(heap, heap[n].left, val, r)
           IN  [heap |-> [sub.heap EXCEPT ![n].left = sub.n], n |-> n]
      ELSE LET sub == insertNodeDesc(heap, heap[n].right, val, r)
           IN  [heap |-> [sub.heap EXCEPT ![n].right = sub.n], n |-> n]

RECURSIVE insertNode(_, _, _, _)
insertNode(heap, n, val, r) ==
  IF n = 0
    THEN [heap |-> Append(heap, node(val, r)), n |-> Len(heap) + 1]
    ELSE IF val < heap[n].val
      THEN LET sub == insertNode(heap, heap[n].left, val, r)
           IN  [heap |-> [sub.heap EXCEPT ![n].left = sub.n], n |-> n]
      ELSE LET sub == insertNode(heap, heap[n].right, val, r)
           IN  [heap |-> [sub.heap EXCEPT ![n].right = sub.n], n |-> n]

\* func (n *node) walk(visit), for n # nil: the revisions in visiting order
RECURSIVE walk(_, _)
walk(heap, n) ==
  (IF heap[n].left # 0 THEN walk(heap, heap[n].left) ELSE <<>>)
    \o <<heap[n].rev>>
    \o (IF heap[n].right # 0 THEN walk(heap, heap[n].right) ELSE <<>>)

\* a Put that counts the revision before it looks at the ID
PutCountsInvalid(c, r) ==
  IF r.ID = "" \/ ~timeParseOk(r.ID)
    THEN [err |-> ErrInvalid, c |-> [c EXCEPT !.len = c.len + 1]]
  ELSE LET ins == insertNode(c.heap, c.root, Unix(r.ID), r)
       IN  [err |-> Nil,
            c |-> [len |-> c.len + 1, root |-> ins.n, heap |-> ins.heap]]

\* func (c *Collection) Put(r): the error returned and the collection after
Put(c, r) ==
  IF r.ID = "" THEN [err |-> ErrInvalid, c |-> c]
  ELSE IF ~timeParseOk(r.ID) THEN [err |-> ErrInvalid, c |-> c]
  ELSE LET ins == insertNode(c.heap, c.root, Unix(r.ID), r)
       IN  [err |-> Nil,
            c |-> [len |-> c.len + 1, root |-> ins.n, heap |-> ins.heap]]

\* func (c *Collection) Len()
Len_(c) == c.len

\* func (c *Collection) Slice(): c.root.walk reads n.left of the receiver, so
\* on a nil root it panics with a nil pointer dereference
Slice(c) ==
  IF c.root = 0 THEN [t |-> "panic", revs |-> <<>>]
  ELSE [t |-> "ok", revs |-> walk(c.heap, c.root)]

\* no Slice result is held
NoSlice == [t |-> "none", revs |-> <<>>]

\* the number of times x occurs in the sequence s
Count(s, x) == Cardinality({i \in 1..Len(s) : s[i] = x})

\* s is ordered by non-decreasing Unix seconds of the parsed ID
SortedByUnix(s) ==
  \A i \in 1..Len(s) : \A j \in 1..Len(s) :
    i < j => Unix(s[i].ID) <= Unix(s[j].ID)

\* s and t hold the same elements the same number of times
SameMultiset(s, t) ==
  /\ Len(s) = Len(t)
  /\ \A i \in 1..Len(s) : Count(s, s[i]) = Count(t, s[i])

(***************************************************************************)
(* State.                                                                  *)
(***************************************************************************)
VARIABLES
  coll,      \* a Collection used through Put, Len and Slice
  putLog,    \* the revisions for which Put on coll returned nil, in call order
  putRes,    \* what the last Put on coll returned
  sliceRes,  \* what Slice on coll returned, if it was called after the last Put
  putArg,    \* the revision given to the last Put on coll
  table,     \* the rows of mgrt_revisions, a bag
  execCount, \* per revision ID, how often its SQL was successfully executed
  pc,        \* where the calling process stands
  op,        \* the function the caller called last
  cur,       \* the revision of the Perform / RevisionPerformed in progress
  queue,     \* PerformRevisions: the part of the sorted slice still to visit
  errs,      \* PerformRevisions: the Errors gathered so far
  batch,     \* PerformRevisions: the arguments revs0
  table0,    \* the rows of mgrt_revisions when the current call began
  perfLog,   \* the Perform calls of the current call that have returned
  batchExec, \* the IDs whose SQL was executed in the current call, in order
  calls,     \* driver calls issued by the Perform in progress
  result,    \* what the last call returned to the caller
  prevNil,   \* the revision of the latest Perform if that returned nil
  file,      \* the content of a revision file, a sequence of characters
  written,   \* the Revision whose String() is the content of file, if any
  decoded,   \* what UnmarshalRevision returned for file, if it was called
  titleRev,  \* the Revision Title is called on, if there is one
  title,     \* what Title returned for titleRev, if it was called
  syncExit,  \* sync: "none" before it runs, "running", or its exit code
  syncRevs,  \* sync: the revisions fetched from the database
  syncPos,   \* sync: how many of syncRevs the loop has gone through
  files,     \* the state of the file of each revision in the local tree
  syncFailed, \* sync: the first file system call that failed, if one did
  ppc,       \* two processes: where each stands in its Perform
  pcur,      \* two processes: the revision of the Perform of each
  overlap,   \* the IDs for which a COUNT query was issued by one process
             \* while the other stood between its COUNT and its INSERT
  now,       \* package revision: time.Now().Unix()
  revDirs,   \* package revision: the directories under config.RevisionsDir()
  adds,      \* package revision: how many times Add was called
  added,     \* package revision: the arguments and the result of the last Add
  found,     \* package revision: the result of a Find after the last Add
  oldest,    \* package revision: what Oldest returned after the last Add
  latest     \* package revision: what Latest returned after the last Add

collVars == <<coll, putLog, putRes, sliceRes, putArg>>

engineVars == <<table, execCount, pc, op, cur, queue, errs, batch, table0,
                perfLog, batchExec, calls, result, prevNil>>

codecVars == <<file, written, decoded>>

titleVars == <<titleRev, title>>

syncVars == <<syncExit, syncRevs, syncPos, files, syncFailed>>

concVars == <<ppc, pcur, overlap>>

revVars == <<now, revDirs, adds, added, found, oldest, latest>>

auxVars == <<codecVars, titleVars, syncVars, concVars, revVars>>

vars == <<coll, putLog, putRes, sliceRes, putArg, table, execCount, pc, op, cur,
          queue, errs, batch, table0, perfLog, batchExec, calls, result,
          prevNil, file, written, decoded, titleRev, title,
          syncExit, syncRevs, syncPos, files, syncFailed, ppc, pcur,
          overlap, now, revDirs, adds, added, found, oldest, latest>>

\* the revision held by cur when no call is in progress
NoRevision == [ID |-> "", SQL |-> ""]

\* no Revision was encoded into file
NoWritten == [t |-> "none"]

\* UnmarshalRevision was not called on the present content of file
NoDecoded == [t |-> "none"]

\* there is no Revision to call Title on
NoTitleRev == [t |-> "none"]

\* Title was not called
NoTitle == [t |-> "none"]

\* the revisions of the database log as sync sees them: an ID and a category
SyncRevisions == [ID : {ID_Jan, ID_Feb}, Category : {"", "c"}]

\* no file system call of sync has failed
NoFailure == [at |-> 0, call |-> "none"]

\* package revision: the seconds the clock goes through
MaxTime == 2

\* strconv.FormatInt(id, 10) for 0 <= id <= 99, as a text
FormatInt(n) ==
  LET digit(k) == CHOOSE c \in DOMAIN DigitVal : DigitVal[c] = k
  IN  IF n < 10 THEN <<digit(n)>> ELSE <<digit(n \div 10), digit(n % 10)>>

\* the names of the revision directories
DirNames == {FormatInt(n) : n \in 1..MaxTime}

\* a directory that does not exist; message is the content of _message
NoDir == [exists |-> FALSE, up |-> FALSE, down |-> FALSE, hasMsg |-> FALSE,
          message |-> <<>>]

\* Add was not called
NoAdded == [t |-> "none"]

\* Find was not called after the last Add
NoFound == [t |-> "none"]

\* Oldest, or Latest, was not called after the last Add
NoListed == [t |-> "none"]

\* the two migration processes that share the database
Procs == {1, 2}

\* the value of prevNil when the latest Perform returned an error, or none ran
NoPerform == [ID |-> "", SQL |-> "none"]

Init ==
  /\ coll = EmptyCollection
  /\ putLog = <<>>
  /\ putRes = Nil
  /\ sliceRes = NoSlice
  /\ putArg = NoRevision
  /\ table = EmptyBag
  /\ execCount = [id \in EngineIDs |-> 0]
  /\ pc = "idle"
  /\ op = "none"
  /\ cur = NoRevision
  /\ queue = <<>>
  /\ errs = <<>>
  /\ batch = <<>>
  /\ table0 = EmptyBag
  /\ perfLog = <<>>
  /\ batchExec = <<>>
  /\ calls = 0
  /\ result = Nil
  /\ prevNil = NoPerform
  /\ file = <<>>
  /\ written = NoWritten
  /\ decoded = NoDecoded
  /\ titleRev = NoTitleRev
  /\ title = NoTitle
  /\ syncExit = "none"
  /\ syncRevs = <<>>
  /\ syncPos = 0
  /\ files = [r \in SyncRevisions |-> "absent"]
  /\ syncFailed = NoFailure
  /\ ppc = [p \in Procs |-> "idle"]
  /\ pcur = [p \in Procs |-> NoRevision]
  /\ overlap = {}
  /\ now = 1
  /\ revDirs = [d \in DirNames |-> NoDir]
  /\ adds = 0
  /\ added = NoAdded
  /\ found = NoFound
  /\ oldest = NoListed
  /\ latest = NoListed

(***************************************************************************)
(* The Collection used on its own.                                         *)
(***************************************************************************)
CollPut(r) ==
  /\ Len(putLog) < MaxPuts
  /\ LET res == Put(coll, r)
     IN  /\ coll' = res.c
         /\ putRes' = res.err
         /\ putLog' = IF res.err = Nil THEN Append(putLog, r) ELSE putLog
  /\ putArg' = r
  /\ sliceRes' = NoSlice
  /\ UNCHANGED <<engineVars, auxVars>>

CollSlice ==
  /\ sliceRes = NoSlice
  /\ sliceRes' = Slice(coll)
  /\ UNCHANGED <<coll, putLog, putRes, putArg>>
  /\ UNCHANGED <<engineVars, auxVars>>

NextColl ==
  \/ \E r \in CollRevisions : CollPut(r)
  \/ CollSlice

SpecColl == Init /\ [][NextColl]_vars

(***************************************************************************)
(* The execution engine.  The caller is one process; it stands at a driver *)
(* call (count, exec, insert) or between two calls (idle, perform, loop).  *)
(* Each driver call either succeeds or fails with a driver error.          *)
(* The database is the bag of rows of mgrt_revisions and, for the rest of  *)
(* it, the count of the executions of each revision's SQL; the SQL of a    *)
(* revision is taken not to write to mgrt_revisions itself, and the        *)
(* comparison "id = <ID>" to select the rows whose id is that ID.          *)
(***************************************************************************)
\* a row of mgrt_revisions, as written by the INSERT of Perform (the columns
\* author, comment and performed_at are not modelled)
Row(r) == [id |-> r.ID, sql |-> r.SQL]

\* the rows of the bag t whose id is id, as a bag
RowsOf(t, id) == [r \in {x \in BagToSet(t) : x.id = id} |-> t[r]]

\* SELECT COUNT(id) FROM mgrt_revisions WHERE id = <id>
RowCount(id) == BagCardinality(RowsOf(table, id))

\* the argument lists of PerformRevisions
Batches == UNION {[1..n -> BatchRevisions] : n \in 0..MaxBatch}

\* "for _, rev := range revs0 { c.Put(rev) }": the error of Put is dropped
RECURSIVE PutAll(_, _)
PutAll(c, revs) ==
  IF revs = <<>> THEN c ELSE PutAll(Put(c, Head(revs)).c, Tail(revs))

\* the loop of PerformRevisions stopping at ErrPerformed too
isBenignNever(err) == FALSE

\* the loop of PerformRevisions going on after every error
isBenignAlways(err) == TRUE

\* errors.Is(err, ErrPerformed) in the loop of PerformRevisions
isBenign(err) == errorsIs(err, ErrPerformed)

\* RevisionPerformed with "count > 1" for "count > 0"
countOutcomeOffByOne(rev, ok) ==
  IF ~ok THEN RevisionError(rev.ID, DriverError("count"))
  ELSE IF RowCount(rev.ID) > 1 THEN RevisionError(rev.ID, ErrPerformed)
  ELSE Nil

\* RevisionPerformed without the test of count
countOutcomeNoTest(rev, ok) ==
  IF ~ok THEN RevisionError(rev.ID, DriverError("count")) ELSE Nil

\* the outcome of "SELECT COUNT(id) ... WHERE id = rev.ID" in
\* RevisionPerformed: a driver error, ErrPerformed when a row is counted, nil
countOutcome(rev, ok) ==
  IF ~ok THEN RevisionError(rev.ID, DriverError("count"))
  ELSE IF RowCount(rev.ID) > 0 THEN RevisionError(rev.ID, ErrPerformed)
  ELSE Nil

\* Perform returns err to its caller after issuing n driver calls.  Called
\* directly, the caller gets err.  Called by PerformRevisions, nil goes on
\* with the loop, an error that is ErrPerformed is appended to errs and the
\* loop goes on, any other error is returned at once.
PerformReturns(err, n) ==
  /\ perfLog' = Append(perfLog, [rev |-> cur, err |-> err,
                                 prevNil |-> cur = prevNil, calls |-> n])
  /\ prevNil' = IF err = Nil THEN cur ELSE NoPerform
  /\ calls' = n
  /\ IF op = "Perform"
       THEN /\ result' = err
            /\ pc' = "returned"
            /\ errs' = errs
       ELSE IF err = Nil
         THEN /\ pc' = "loop"
              /\ UNCHANGED <<result, errs>>
         ELSE IF isBenign(err)
           THEN /\ errs' = Append(errs, err)
                /\ pc' = "loop"
                /\ result' = result
           ELSE /\ result' = err
                /\ pc' = "returned"
                /\ errs' = errs

\* the caller calls rev.Perform(db)
CallPerform(r) ==
  /\ pc = "idle"
  /\ pc' = "perform"
  /\ op' = "Perform"
  /\ cur' = r
  /\ queue' = <<>>
  /\ errs' = <<>>
  /\ batch' = <<>>
  /\ table0' = table
  /\ perfLog' = <<>>
  /\ batchExec' = <<>>
  /\ calls' = 0
  /\ result' = Nil
  /\ UNCHANGED <<prevNil, table, execCount>>
  /\ UNCHANGED <<collVars, auxVars>>

\* Perform without "if r.SQL == "" { return nil }"
PerformEnterNoEmpty ==
  /\ pc = "perform"
  /\ IF ~timeParseOk(cur.ID)
       THEN PerformReturns(ErrInvalid, 0)
       ELSE /\ pc' = "count"
            /\ UNCHANGED <<errs, perfLog, calls, result, prevNil>>
  /\ UNCHANGED <<op, cur, queue, batch, table0, batchExec>>
  /\ UNCHANGED <<table, execCount>>
  /\ UNCHANGED <<collVars, auxVars>>

\* Perform up to its first driver call: the empty revision returns nil, then
\* RevisionPerformed parses the ID
PerformEnter ==
  /\ pc = "perform"
  /\ IF cur.SQL = ""
       THEN PerformReturns(Nil, 0)
       ELSE IF ~timeParseOk(cur.ID)
         THEN PerformReturns(ErrInvalid, 0)
         ELSE /\ pc' = "count"
              /\ UNCHANGED <<errs, perfLog, calls, result, prevNil>>
  /\ UNCHANGED <<op, cur, queue, batch, table0, batchExec>>
  /\ UNCHANGED <<table, execCount>>
  /\ UNCHANGED <<collVars, auxVars>>

\* the caller calls RevisionPerformed(db, rev)
CallRevisionPerformed(r) ==
  /\ pc = "idle"
  /\ op' = "RevisionPerformed"
  /\ cur' = r
  /\ queue' = <<>>
  /\ errs' = <<>>
  /\ batch' = <<>>
  /\ table0' = table
  /\ perfLog' = <<>>
  /\ batchExec' = <<>>
  /\ calls' = 0
  /\ IF ~timeParseOk(r.ID)
       THEN /\ result' = ErrInvalid
            /\ pc' = "returned"
       ELSE /\ result' = Nil
            /\ pc' = "count"
  /\ UNCHANGED <<prevNil, table, execCount>>
  /\ UNCHANGED <<collVars, auxVars>>

\* db.QueryRow(q).Scan(&count) of RevisionPerformed
QueryCount(ok) ==
  /\ pc = "count"
  /\ LET err == countOutcome(cur, ok)
     IN  IF op = "RevisionPerformed"
           THEN /\ result' = err
                /\ pc' = "returned"
                /\ calls' = calls + 1
                /\ UNCHANGED <<errs, perfLog, prevNil>>
           ELSE IF err # Nil
             THEN PerformReturns(err, calls + 1)
             ELSE /\ pc' = "exec"
                  /\ calls' = calls + 1
                  /\ UNCHANGED <<errs, perfLog, result, prevNil>>
  /\ UNCHANGED <<op, cur, queue, batch, table0, batchExec>>
  /\ UNCHANGED <<table, execCount>>
  /\ UNCHANGED <<collVars, auxVars>>

\* Perform going on to the INSERT although db.Exec(r.SQL) failed
ExecSQLNoCheck(ok) ==
  /\ pc = "exec"
  /\ IF ok
       THEN /\ execCount[cur.ID] < MaxExec
            /\ execCount' = [execCount EXCEPT ![cur.ID] = @ + 1]
            /\ batchExec' = Append(batchExec, cur.ID)
       ELSE UNCHANGED <<execCount, batchExec>>
  /\ pc' = "insert"
  /\ calls' = calls + 1
  /\ UNCHANGED <<errs, perfLog, result, prevNil>>
  /\ UNCHANGED <<op, cur, queue, batch, table0>>
  /\ UNCHANGED table
  /\ UNCHANGED <<collVars, auxVars>>

\* a db.Exec(r.SQL) whose failure is returned after the row was written
ExecSQLRecordsFailure(ok) ==
  /\ pc = "exec"
  /\ IF ok
       THEN /\ execCount[cur.ID] < MaxExec
            /\ execCount' = [execCount EXCEPT ![cur.ID] = @ + 1]
            /\ batchExec' = Append(batchExec, cur.ID)
            /\ pc' = "insert"
            /\ calls' = calls + 1
            /\ table' = table
            /\ UNCHANGED <<errs, perfLog, result, prevNil>>
       ELSE /\ PerformReturns(DriverError("exec"), calls + 1)
            /\ table' = table (+) SetToBag({Row(cur)})
            /\ UNCHANGED <<execCount, batchExec>>
  /\ UNCHANGED <<op, cur, queue, batch, table0>>
  /\ UNCHANGED <<collVars, auxVars>>

\* db.Exec(r.SQL) of Perform
ExecSQL(ok) ==
  /\ pc = "exec"
  /\ IF ok
       THEN /\ execCount[cur.ID] < MaxExec
            /\ execCount' = [execCount EXCEPT ![cur.ID] = @ + 1]
            /\ batchExec' = Append(batchExec, cur.ID)
            /\ pc' = "insert"
            /\ calls' = calls + 1
            /\ UNCHANGED <<errs, perfLog, result, prevNil>>
       ELSE /\ PerformReturns(DriverError("exec"), calls + 1)
            /\ UNCHANGED <<execCount, batchExec>>
  /\ UNCHANGED <<op, cur, queue, batch, table0>>
  /\ UNCHANGED table
  /\ UNCHANGED <<collVars, auxVars>>

\* db.Exec(q) of Perform, q being the INSERT INTO mgrt_revisions
ExecInsert(ok) ==
  /\ pc = "insert"
  /\ IF ok
       THEN /\ table' = table (+) SetToBag({Row(cur)})
            /\ PerformReturns(Nil, calls + 1)
       ELSE /\ table' = table
            /\ PerformReturns(DriverError("insert"), calls + 1)
  /\ UNCHANGED <<op, cur, queue, batch, table0, batchExec>>
  /\ UNCHANGED execCount
  /\ UNCHANGED <<collVars, auxVars>>

\* the caller calls PerformRevisions(db, revs0...): the revisions are put in a
\* Collection and the sorted slice is taken
CallPerformRevisions(revs0) ==
  /\ pc = "idle"
  /\ op' = "PerformRevisions"
  /\ cur' = NoRevision
  /\ errs' = <<>>
  /\ batch' = revs0
  /\ table0' = table
  /\ perfLog' = <<>>
  /\ batchExec' = <<>>
  /\ calls' = 0
  /\ LET revs == Slice(PutAll(EmptyCollection, revs0))
     IN  IF revs.t = "panic"
           THEN /\ result' = Panic
                /\ pc' = "returned"
                /\ queue' = <<>>
           ELSE /\ result' = Nil
                /\ pc' = "loop"
                /\ queue' = revs.revs
  /\ UNCHANGED <<prevNil, table, execCount>>
  /\ UNCHANGED <<collVars, auxVars>>

\* "for _, rev := range revs": the next revision is performed, or the loop
\* ends and errs.err() is returned
LoopStep ==
  /\ pc = "loop"
  /\ IF queue = <<>>
       THEN /\ result' = Errors_err(errs)
            /\ pc' = "returned"
            /\ UNCHANGED <<cur, queue, calls>>
       ELSE /\ cur' = Head(queue)
            /\ queue' = Tail(queue)
            /\ calls' = 0
            /\ pc' = "perform"
            /\ result' = result
  /\ UNCHANGED <<op, errs, batch, table0, perfLog, batchExec, prevNil>>
  /\ UNCHANGED <<table, execCount>>
  /\ UNCHANGED <<collVars, auxVars>>

\* s lists the rows of the bag t, each as often as t holds it
ListsRows(s, t) ==
  /\ Len(s) = BagCardinality(t)
  /\ \A r \in BagToSet(t) : Count(s, r) = CopiesIn(r, t)

\* the lists the SELECT of GetRevisions may deliver.  performed_at is not
\* modelled, so the order asked for (ORDER BY performed_at DESC) is left open
SelectResults ==
  {s \in [1..BagCardinality(table) -> BagToSet(table)] : ListsRows(s, table)}

\* the caller calls GetRevisions(db); fail names the driver call that fails
GetRevisions(fail) ==
  /\ pc = "idle"
  /\ pc' = "returned"
  /\ op' = "GetRevisions"
  /\ cur' = NoRevision
  /\ queue' = <<>>
  /\ errs' = <<>>
  /\ batch' = <<>>
  /\ table0' = table
  /\ perfLog' = <<>>
  /\ batchExec' = <<>>
  /\ calls' = 0
  /\ IF fail # "none"
       THEN result' = DriverError(fail)
       ELSE \E s \in SelectResults :
              result' = [t |-> "revisions",
                         revs |-> [i \in 1..Len(s) |->
                                     [ID |-> s[i].id, SQL |-> s[i].sql]]]
  /\ UNCHANGED <<prevNil, table, execCount>>
  /\ UNCHANGED <<collVars, auxVars>>

\* the caller has the result of its call and goes on (or its process ends):
\* what the call held in memory is gone, the database stays
Finish ==
  /\ pc = "returned"
  /\ pc' = "idle"
  /\ op' = "none"
  /\ cur' = NoRevision
  /\ queue' = <<>>
  /\ errs' = <<>>
  /\ batch' = <<>>
  /\ table0' = EmptyBag
  /\ perfLog' = <<>>
  /\ batchExec' = <<>>
  /\ calls' = 0
  /\ result' = Nil
  /\ UNCHANGED <<prevNil, table, execCount>>
  /\ UNCHANGED <<collVars, auxVars>>

Next ==
  \/ \E r \in EngineRevisions : CallPerform(r)
  \/ PerformEnter
  \/ \E r \in EngineRevisions : CallRevisionPerformed(r)
  \/ \E ok \in BOOLEAN : QueryCount(ok)
  \/ \E ok \in BOOLEAN : ExecSQL(ok)
  \/ \E ok \in BOOLEAN : ExecInsert(ok)
  \/ \E revs0 \in Batches : CallPerformRevisions(revs0)
  \/ LoopStep
  \/ \E fail \in {"none", "count", "query", "scan", "rows"} : GetRevisions(fail)
  \/ Finish

Spec == Init /\ [][Next]_vars

(***************************************************************************)
(* Properties.                                                             *)
(***************************************************************************)
\* the call of o has returned and its result is held
Returned(o) == pc = "returned" /\ op = o

\* a Perform is in progress
Performing == pc \in {"perform", "count", "exec", "insert"}

\* the revisions attempted in the current call, in the order of the attempts
Attempted ==
  [i \in 1..Len(perfLog) |-> perfLog[i].rev]
    \o (IF Performing THEN <<cur>> ELSE <<>>)

\* the error is neither nil nor ErrPerformed
IsOtherError(err) == err # Nil /\ ~errorsIs(err, ErrPerformed)

\* mgrt_revisions held a row for id when the current call began
HadRow(id) == BagCardinality(RowsOf(table0, id)) > 0

\* C1: the SQL of a revision with a given ID is successfully executed at most
\* once, whichever driver calls fail.
C1_AtMostOnce == \A id \in EngineIDs : execCount[id] <= 1

\* C2: a Perform that follows a Perform of the same revision that returned nil
\* returns an error whose cause is ErrPerformed.
C2_Idempotent ==
  \A i \in DOMAIN perfLog :
    perfLog[i].prevNil => errorsIs(perfLog[i].err, ErrPerformed)

\* C2 as amended: the same for a revision with non-empty SQL, when the COUNT
\* query of the second Perform does not fail.
C2_IdempotentNonEmpty ==
  \A i \in DOMAIN perfLog :
    ( /\ perfLog[i].prevNil
      /\ perfLog[i].rev.SQL # ""
      /\ perfLog[i].err # RevisionError(perfLog[i].rev.ID, DriverError("count")) )
    => errorsIs(perfLog[i].err, ErrPerformed)

\* a second Perform of a recorded revision, called on its own, got ErrPerformed
C2_Witness ==
  /\ Returned("Perform")
  /\ perfLog # <<>>
  /\ perfLog[1].prevNil
  /\ cur.SQL # ""
  /\ result = RevisionError(cur.ID, ErrPerformed)

\* C3: mgrt_revisions holds at most one row per revision ID.
C3_OneRowPerID == \A id \in EngineIDs : RowCount(id) <= 1

\* a revision that has its row was performed again, after a failed INSERT had
\* let its SQL run twice
C3_Witness ==
  /\ pc \in {"returned", "loop"}
  /\ perfLog # <<>>
  /\ errorsIs(perfLog[Len(perfLog)].err, ErrPerformed)
  /\ RowCount(cur.ID) = 1
  /\ execCount[cur.ID] = 2

\* C4: every row has the ID of a revision whose SQL was executed before the
\* row was inserted, and no step removes or changes a row.
C4_RowsMeanPerformed ==
  /\ [](\A id \in EngineIDs : RowCount(id) <= execCount[id])
  /\ [][table \sqsubseteq table']_vars

\* GetRevisions has read a table of two rows
C4_Witness ==
  /\ Returned("GetRevisions")
  /\ result.t = "revisions"
  /\ BagCardinality(table) = 2

\* C5: within one PerformRevisions the revisions are attempted, and their SQL
\* executed, in ascending order of the Unix seconds of their ID, and none is
\* attempted before one still to come with a smaller timestamp.
C5_AscendingOrder ==
  op = "PerformRevisions" =>
    /\ SortedByUnix(Attempted)
    /\ \A i \in 1..Len(batchExec) : \A j \in 1..Len(batchExec) :
         i < j => Unix(batchExec[i]) <= Unix(batchExec[j])
    /\ \A i \in 1..Len(Attempted) : \A j \in 1..Len(queue) :
         Unix(Attempted[i].ID) <= Unix(queue[j].ID)

\* the arguments came in descending order and were executed in ascending order
C5_Witness ==
  /\ Returned("PerformRevisions")
  /\ Len(batch) >= 2
  /\ timeParseOk(batch[1].ID)
  /\ timeParseOk(batch[2].ID)
  /\ Unix(batch[1].ID) > Unix(batch[2].ID)
  /\ Len(batchExec) = 2
  /\ Unix(batchExec[1]) < Unix(batchExec[2])

\* the arguments of PerformRevisions have valid IDs and non-empty SQL, some had
\* a row when the call began, the call has returned and no driver call failed
C6_Case ==
  /\ Returned("PerformRevisions")
  /\ \A i \in DOMAIN batch : timeParseOk(batch[i].ID) /\ batch[i].SQL # ""
  /\ \E i \in DOMAIN batch : HadRow(batch[i].ID)
  /\ \A i \in DOMAIN perfLog : ~IsOtherError(perfLog[i].err)

\* the arguments in ascending order (the sorted slice)
SortedBatch == Slice(PutAll(EmptyCollection, batch)).revs

\* one *RevisionError wrapping ErrPerformed per argument that had a row, in
\* ascending order
ExpectedErrors ==
  LET had == SelectSeq(SortedBatch, LAMBDA r : HadRow(r.ID))
  IN  [i \in 1..Len(had) |-> RevisionError(had[i].ID, ErrPerformed)]

\* every argument without a row was executed and recorded, none with a row was
\* executed, and the result is the Errors of those that had a row
C6_Outcome ==
  /\ \A i \in DOMAIN batch :
       ~HadRow(batch[i].ID) =>
         /\ \E k \in DOMAIN batchExec : batchExec[k] = batch[i].ID
         /\ RowCount(batch[i].ID) >= 1
  /\ \A i \in DOMAIN batch :
       HadRow(batch[i].ID) =>
         ~\E k \in DOMAIN batchExec : batchExec[k] = batch[i].ID
  /\ result = [t |-> "Errors", errs |-> ExpectedErrors]

\* C6: given revisions with valid IDs and non-empty SQL of which some have a
\* row, and no driver failure, PerformRevisions executes and records those
\* without a row, executes none with a row and returns one ErrPerformed element
\* per revision that had a row, in ascending order.
C6_BatchContinues == C6_Case => C6_Outcome

\* no two arguments of PerformRevisions have the same ID
DistinctIDs ==
  \A i \in DOMAIN batch : \A j \in DOMAIN batch :
    i # j => batch[i].ID # batch[j].ID

\* C6 as amended: the same when the revisions given have pairwise distinct IDs.
C6_BatchContinuesDistinct == (C6_Case /\ DistinctIDs) => C6_Outcome

\* a batch of a recorded and a new revision returned Errors of one element
C6_Witness ==
  /\ C6_Case
  /\ DistinctIDs
  /\ Len(batch) = 2
  /\ Len(batchExec) = 1
  /\ result.t = "Errors"
  /\ Len(result.errs) = 1

\* C7: when a Perform inside PerformRevisions fails with an error that is not
\* ErrPerformed, PerformRevisions returns that error, attempts nothing after
\* it and the rows recorded for the earlier revisions stay.
C7_BatchAborts ==
  op = "PerformRevisions" =>
    \A i \in DOMAIN perfLog :
      IsOtherError(perfLog[i].err) =>
        /\ pc = "returned"
        /\ i = Len(perfLog)
        /\ result = perfLog[i].err
        /\ table0 \sqsubseteq table
        /\ \A j \in 1..(i - 1) :
             (perfLog[j].err = Nil /\ perfLog[j].rev.SQL # "") =>
               RowCount(perfLog[j].rev.ID) >= 1

\* the first revision was recorded, the second failed at the driver and a third
\* was left in the slice
C7_Witness ==
  /\ Returned("PerformRevisions")
  /\ Len(perfLog) = 2
  /\ perfLog[1].err = Nil
  /\ perfLog[1].rev.SQL # ""
  /\ ~HadRow(perfLog[1].rev.ID)
  /\ result.t = "driver"
  /\ queue # <<>>

\* C8: PerformRevisions returns nil whenever no revision was already performed
\* and no driver call failed, also when no revision was given or none could
\* be put in the Collection.
C8_EmptyIsSuccess ==
  ( /\ Returned("PerformRevisions")
    /\ \A i \in DOMAIN perfLog : perfLog[i].err = Nil )
  => result = Nil

\* C9: Perform of a revision with empty SQL returns nil at once: no driver
\* call is issued, no row is inserted, nothing is executed.
C9_EmptyNoOp ==
  [][(pc = "perform" /\ cur.SQL = "") =>
       /\ table' = table
       /\ execCount' = execCount
       /\ calls' = 0
       /\ pc' \in {"returned", "loop"}
       /\ perfLog' = Append(perfLog, [rev |-> cur, err |-> Nil,
                                       prevNil |-> cur = prevNil, calls |-> 0])
       /\ (op = "Perform" => result' = Nil)]_vars

\* Perform of an empty revision with an invalid ID returned nil on a table
\* that holds rows
C9_Witness ==
  /\ Returned("Perform")
  /\ cur = Revision(ID_Bogus, "")
  /\ result = Nil
  /\ calls = 0
  /\ BagCardinality(table) >= 1

\* C10: Slice returns exactly the revisions that were put, each once per Put,
\* ordered by non-decreasing Unix seconds of the ID.
C10_SliceSorted ==
  sliceRes # NoSlice =>
    /\ sliceRes.t = "ok"
    /\ SortedByUnix(sliceRes.revs)
    /\ SameMultiset(sliceRes.revs, putLog)

\* what holds of Slice once a revision was put
C10_SliceSortedNonEmpty ==
  (sliceRes # NoSlice /\ putLog # <<>>) =>
    /\ sliceRes.t = "ok"
    /\ SortedByUnix(sliceRes.revs)
    /\ SameMultiset(sliceRes.revs, putLog)

\* C11: a Put of a revision whose ID is empty or does not parse returns
\* ErrInvalid and leaves the collection as it was: Len and Slice give what
\* they gave before the call.
C11_PutRejectsInvalid ==
  [][(sliceRes' = NoSlice /\ ~timeParseOk(putArg'.ID))
       => /\ putRes' = ErrInvalid
          /\ Len_(coll') = Len_(coll)
          /\ Slice(coll') = Slice(coll)
          /\ putLog' = putLog]_vars

\* an invalid ID was rejected by a collection that already holds revisions
C11_Witness ==
  /\ putRes = ErrInvalid
  /\ putArg.ID = ID_Bogus
  /\ Len_(coll) = 2
  /\ Len(putLog) = 2
  /\ sliceRes = NoSlice

\* C21: in every state of a Collection, from the empty one on, Len() is the
\* number of Puts that returned nil and the number of elements Slice()
\* returns; on the empty collection Len() is 0 and Slice() returns an empty
\* sequence.
C21_SizeConsistent ==
  /\ Len_(coll) = Len(putLog)
  /\ sliceRes # NoSlice
       => /\ sliceRes.t = "ok"
          /\ Len(sliceRes.revs) = Len_(coll)

\* what holds of the sizes: Len() counts the Puts that returned nil, and once
\* a revision was put Slice() returns that many elements
C21_SizeConsistentNonEmpty ==
  /\ Len_(coll) = Len(putLog)
  /\ (sliceRes # NoSlice /\ putLog # <<>>)
       => /\ sliceRes.t = "ok"
          /\ Len(sliceRes.revs) = Len_(coll)

\* C17: when PerformRevisions was given a revision whose ID does not parse,
\* and no driver call failed, what it returns is or wraps ErrInvalid; it is
\* not nil and the revision is not passed over in silence.
C17_InvalidSurfaced ==
  ( /\ Returned("PerformRevisions")
    /\ result # Panic
    /\ \A i \in DOMAIN perfLog : ~IsOtherError(perfLog[i].err)
    /\ \E i \in DOMAIN batch : ~timeParseOk(batch[i].ID) )
  => errorsIs(result, ErrInvalid)

\* C18: when db.Exec(r.SQL) fails, Perform returns the driver's error with
\* no further driver call (the INSERT is not issued) and mgrt_revisions holds
\* the rows it held; it holds no row of the revision, and a Perform whose
\* COUNT query finds no row goes on to execute the SQL, so a later Perform
\* of the revision attempts the SQL again.
C18_FailedSQLNotRecorded ==
  /\ [][(pc = "exec" /\ execCount' = execCount)
          => /\ table' = table
             /\ BagCardinality(RowsOf(table', cur.ID)) = 0
             /\ calls' = calls + 1
             /\ Len(perfLog') = Len(perfLog) + 1
             /\ perfLog'[Len(perfLog')].rev = cur
             /\ perfLog'[Len(perfLog')].err = DriverError("exec")
             /\ pc' = "returned"
             /\ result' = DriverError("exec")]_vars
  /\ [][(/\ pc = "count" /\ op # "RevisionPerformed"
          /\ RowCount(cur.ID) = 0 /\ perfLog' = perfLog)
          => pc' = "exec"]_vars

\* a Perform has failed at db.Exec(r.SQL) on a table that holds a row of
\* another revision
C18_Witness ==
  /\ Returned("Perform")
  /\ result = DriverError("exec")
  /\ calls = 2
  /\ BagCardinality(table) = 1
  /\ table = table0
  /\ RowCount(cur.ID) = 0

(***************************************************************************)
(* The codec: Revision.String and UnmarshalRevision.  Text is a sequence   *)
(* of one-character strings.  The reader is an in-memory one, so ReadRune  *)
(* fails with io.EOF only.                                                 *)
(***************************************************************************)
MaxComment == 4
MaxSQL == 2

\* the characters a Comment and an SQL body are built from
CommentRunes == {"a", "\n", ":"}
SQLRunes == {"a", "*", "/"}

\* every text of at most n characters over the alphabet A
Texts(A, n) == UNION {[1..k -> A] : k \in 0..n}

\* unicode.IsSpace, on the characters that occur
isSpace(r) == r \in {" ", "\n", "\t", "\r"}

\* strings.TrimSpace
RECURSIVE TrimLeft(_)
TrimLeft(s) ==
  IF s # <<>> /\ isSpace(Head(s)) THEN TrimLeft(Tail(s)) ELSE s

RECURSIVE TrimRight(_)
TrimRight(s) ==
  IF s # <<>> /\ isSpace(s[Len(s)])
    THEN TrimRight(SubSeq(s, 1, Len(s) - 1)) ELSE s

TrimSpace(s) == TrimRight(TrimLeft(s))

\* the keywords of the comment block header
kwRevision == <<"R", "e", "v", "i", "s", "i", "o", "n">>
kwAuthor == <<"A", "u", "t", "h", "o", "r">>

\* a Revision as the codec sees it; every field is a text
CodecRevision(id, author, comment, sql) ==
  [ID |-> id, Author |-> author, Comment |-> comment, SQL |-> sql]

\* func (r *Revision) String()
String(r) ==
  <<"/", "*", "\n">>
    \o kwRevision \o <<":", " ">> \o r.ID \o <<"\n">>
    \o kwAuthor \o <<":", " ", " ", " ">> \o r.Author \o <<"\n">>
    \o (IF r.Comment # <<>> THEN <<"\n">> \o r.Comment \o <<"\n">> ELSE <<>>)
    \o <<"*", "/", "\n", "\n">>
    \o r.SQL

\* the index, counted from 0, of the first ':' in buf, or -1 (lines 256-263)
colonPos(buf) ==
  IF \E i \in 1..Len(buf) : buf[i] = ":"
    THEN (CHOOSE i \in 1..Len(buf) :
            buf[i] = ":" /\ \A j \in 1..(i - 1) : buf[j] # ":") - 1
    ELSE -1

\* buf[lo:hi] of Go, for 0 <= lo <= hi <= len(buf)
slice(buf, lo, hi) == SubSeq(buf, lo + 1, hi)

\* the locals of UnmarshalRevision before the first rune is read
decodeStart ==
  [i |-> 1, buf |-> <<>>, r0 |-> "", inBlock |-> FALSE, panic |-> FALSE,
   ID |-> <<>>, Author |-> <<>>, Comment |-> <<>>, SQL |-> <<>>]

\* buf = append(buf, r); r0 = r  (label cont, lines 300-302)
cont(st, r) == [st EXCEPT !.buf = Append(st.buf, r), !.r0 = r]

\* a line of the block that holds a ':' at index pos of buf (lines 269-279):
\* buf[pos-6:pos] and buf[pos-8:pos] panic when the low bound is negative
endOfLine(st, r, pos) ==
  IF pos < 6 THEN [st EXCEPT !.panic = TRUE]
  ELSE IF slice(st.buf, pos - 6, pos) = kwAuthor
    THEN [st EXCEPT !.Author = TrimSpace(slice(st.buf, pos + 1, Len(st.buf))),
                    !.buf = <<>>]
  ELSE IF pos < 8 THEN [st EXCEPT !.panic = TRUE]
  ELSE IF slice(st.buf, pos - 8, pos) = kwRevision
    THEN [st EXCEPT !.ID = TrimSpace(slice(st.buf, pos + 1, Len(st.buf))),
                    !.buf = <<>>]
  ELSE cont(st, r)

\* one pass of the loop of UnmarshalRevision (lines 223-302): the rune at
\* st.i is read, and st.i moves to the rune the next pass reads
readRune(in, st) ==
  LET r == in[st.i]
      nxt == [st EXCEPT !.i = st.i + 1]
  IN  IF r = "*" /\ st.r0 = "/" THEN [nxt EXCEPT !.inBlock = TRUE]
      ELSE IF r = "/" /\ st.r0 = "*"
        THEN [nxt EXCEPT !.Comment = TrimSpace(st.buf), !.buf = <<>>,
                         !.inBlock = FALSE]
      ELSE IF st.inBlock /\ r = "\n"
        THEN IF st.r0 = "\n" THEN [nxt EXCEPT !.buf = <<>>]
             ELSE IF colonPos(st.buf) < 0 THEN cont(nxt, r)
             ELSE endOfLine(nxt, r, colonPos(st.buf))
      ELSE IF r = "*"
        THEN IF st.i + 1 > Len(in)
               \* the peek met io.EOF: continue, the next read ends the loop
               THEN nxt
             ELSE IF in[st.i + 1] = "/"
               \* UnreadRune: the '/' is read again
               THEN [nxt EXCEPT !.r0 = r]
             \* the peeked rune is not put back
             ELSE [cont(nxt, r) EXCEPT !.i = st.i + 2]
      ELSE cont(nxt, r)

\* n passes of the loop of UnmarshalRevision (lines 222-303) from state st
\* on; the loop is left on a panic and at io.EOF
RECURSIVE readRunes(_, _, _)
readRunes(in, st, n) ==
  IF n = 0 \/ st.panic \/ st.i > Len(in) THEN st
  ELSE IF n = 1 THEN readRune(in, st)
  ELSE readRunes(in, readRunes(in, st, n \div 2), n - (n \div 2))

\* what the codec returns: a Revision, an error, or a run-time panic
Decoded(st) ==
  [t |-> "ok", rev |-> CodecRevision(st.ID, st.Author, st.Comment, st.SQL)]
DecodeError(err) == [t |-> "err", err |-> err]
DecodePanic == [t |-> "panic"]

\* func UnmarshalRevision(r io.Reader)
UnmarshalRevision(in) ==
  LET last == readRunes(in, decodeStart, Len(in))
      \* io.EOF: rev.SQL = strings.TrimSpace(string(buf))  (line 229)
      st == [last EXCEPT !.SQL = TrimSpace(last.buf)]
  IN  IF st.panic THEN DecodePanic
      ELSE IF ~parseOk(st.ID) THEN DecodeError(ErrInvalid)
      ELSE Decoded(st)

\* the revisions written to a file: a valid ID, an author or none, every
\* Comment and every SQL body within the bounds
CodecAuthors == {<<>>, <<"m", "e">>}

CodecRevisions ==
  {CodecRevision(Runes[ID_Jan], a, c, q) :
     a \in CodecAuthors,
     c \in Texts(CommentRunes, MaxComment),
     q \in Texts(SQLRunes, MaxSQL)}

\* files written by hand: text before the block, a block, text after it
lineRevision == kwRevision \o <<":", " ">> \o Runes[ID_Jan] \o <<"\n">>
lineBogus == kwRevision \o <<":", " ">> \o Runes[ID_Bogus] \o <<"\n">>
lineAuthor == kwAuthor \o <<":", " ", "m", "e", "\n">>

HandBlocks ==
  {<<"\n">> \o lineRevision,
   <<"\n">> \o lineRevision \o lineAuthor,
   <<"\n">> \o lineAuthor \o lineRevision,
   <<"\n">> \o lineBogus,
   <<"\n">> \o lineRevision \o <<"\n", "a", "\n">>,
   <<"\n">> \o lineRevision \o <<"\n", "a", ":", "a", "\n">>,
   <<"\n">> \o lineRevision \o <<"\n", "a", "a", "a", "a", "a", ":", "a", "\n">>,
   <<"\n">> \o lineRevision
           \o <<"\n", "a", "a", "a", "a", "a", "a", "a", ":", "a", "\n">>,
   <<"\n", "a", ":", "a", "\n">>,
   <<"\n", "a", "\n">>,
   <<>>}

HandBefore == {<<>>, <<"a">>, <<"a", "\n">>, <<"a", " ">>}
HandAfter == {<<>>, <<"a">>, <<"\n", "a">>, <<"\n", "a", " ", "a", "\n">>}

HandFiles ==
  {pre \o <<"/", "*">> \o blk \o <<"*", "/">> \o post :
     pre \in HandBefore, blk \in HandBlocks, post \in HandAfter}

\* a command writes rev.String() to the file of the revision, a new file
CodecWrite(r) ==
  /\ file = <<>>
  /\ file' = String(r)
  /\ written' = [t |-> "rev", rev |-> r]
  /\ decoded' = NoDecoded
  /\ UNCHANGED <<collVars, engineVars, titleVars, syncVars, concVars, revVars>>

\* the user writes the file of a revision by hand, a new file
CodecEdit(text) ==
  /\ file = <<>>
  /\ file' = text
  /\ written' = NoWritten
  /\ decoded' = NoDecoded
  /\ UNCHANGED <<collVars, engineVars, titleVars, syncVars, concVars, revVars>>

\* OpenRevision: UnmarshalRevision is applied to the content of the file
CodecOpen ==
  /\ decoded = NoDecoded
  /\ decoded' = UnmarshalRevision(file)
  /\ UNCHANGED <<file, written>>
  /\ UNCHANGED <<collVars, engineVars, titleVars, syncVars, concVars, revVars>>

NextCodec ==
  \/ \E r \in CodecRevisions : CodecWrite(r)
  \/ \E text \in HandFiles : CodecEdit(text)
  \/ CodecOpen

SpecCodec == Init /\ [][NextCodec]_vars

\* C12: decoding the text String gives for a Revision with a valid ID
\* returns a Revision with the same ID and Author, and with the Comment and
\* the SQL equal after both are trimmed of leading and trailing whitespace.
C12_RoundTrip ==
  (written # NoWritten /\ decoded # NoDecoded)
    => /\ decoded.t = "ok"
       /\ decoded.rev.ID = written.rev.ID
       /\ decoded.rev.Author = written.rev.Author
       /\ decoded.rev.Comment = TrimSpace(written.rev.Comment)
       /\ decoded.rev.SQL = TrimSpace(written.rev.SQL)

\* no two line feeds of c follow each other
noBlankLine(c) ==
  \A i \in 1..(Len(c) - 1) : ~(c[i] = "\n" /\ c[i + 1] = "\n")

\* the round trip of C12 for the revisions the decoder handles: no ':' in the
\* Comment, no '*' in the SQL, and no blank line after the first printing
\* character of the Comment followed by its line feed
C12_RoundTripPlain ==
  (/\ written # NoWritten
   /\ decoded # NoDecoded
   /\ (\A i \in 1..Len(written.rev.Comment) : written.rev.Comment[i] # ":")
   /\ (\A j \in 1..Len(written.rev.SQL) : written.rev.SQL[j] # "*")
   /\ noBlankLine(TrimLeft(written.rev.Comment \o <<"\n">>)))
    => C12_RoundTrip

\* the place of the first "/*" of text
blockOpen(text) ==
  CHOOSE i \in 1..(Len(text) - 1) :
    /\ text[i] = "/" /\ text[i + 1] = "*"
    /\ \A j \in 1..(i - 1) : ~(text[j] = "/" /\ text[j + 1] = "*")

hasOpen(text) ==
  \E i \in 1..(Len(text) - 1) : text[i] = "/" /\ text[i + 1] = "*"

closesAt(text, j) ==
  /\ j > blockOpen(text) + 1
  /\ text[j] = "*" /\ text[j + 1] = "/"

hasBlock(text) ==
  hasOpen(text) /\ \E j \in 1..(Len(text) - 1) : closesAt(text, j)

blockClose(text) ==
  CHOOSE j \in 1..(Len(text) - 1) :
    closesAt(text, j) /\ \A k \in 1..(j - 1) : ~closesAt(text, k)

\* the characters before the opening "/*" and those after the closing "*/"
outsideBlock(text) ==
  SubSeq(text, 1, blockOpen(text) - 1)
    \o SubSeq(text, blockClose(text) + 2, Len(text))

\* the block of text holds the line "Revision: <a valid ID>"
hasRevisionLine(text) ==
  /\ hasBlock(text)
  /\ \E i \in (blockOpen(text) + 2)..blockClose(text) :
       /\ i + Len(lineRevision) - 1 < blockClose(text)
       /\ SubSeq(text, i, i + Len(lineRevision) - 1) = lineRevision

\* the block of text holds a ':'
hasColonInBlock(text) ==
  /\ hasBlock(text)
  /\ \E i \in (blockOpen(text) + 2)..(blockClose(text) - 1) : text[i] = ":"

\* C13: when the input holds a block with a valid Revision line, the SQL of
\* the decoded Revision is the trimmed concatenation of the characters before
\* the opening "/*" and the characters after the closing "*/".
C13_SQLOutsideBlock ==
  (decoded # NoDecoded /\ decoded.t = "ok" /\ hasRevisionLine(file))
    => decoded.rev.SQL = TrimSpace(outsideBlock(file))

\* C14: when the block of the input holds a ':', whatever its place in the
\* line, UnmarshalRevision returns normally, with a Revision or with
\* ErrInvalid; it makes no out-of-range access.
C14_LookBackGuarded ==
  (decoded # NoDecoded /\ hasColonInBlock(file))
    => \/ decoded.t = "ok"
       \/ decoded.t = "err" /\ decoded.err = ErrInvalid

(***************************************************************************)
(* Revision.Title.  A Comment is a text of single-byte characters.         *)
(***************************************************************************)
MaxTitle == 74

\* the length Title cuts the comment to (line 413)
TitleLimit == 72

\* bytes.IndexByte: the index, counted from 0, of the first c in s, or -1
IndexByte(s, c) ==
  IF \E i \in 1..Len(s) : s[i] = c
    THEN (CHOOSE i \in 1..Len(s) :
            s[i] = c /\ \A j \in 1..(i - 1) : s[j] # c) - 1
    ELSE -1

\* a Title that looks for the line feed whatever the length of the comment
TitleFirstLine(comment) ==
  LET l == Len(comment)
      cut == IF l >= TitleLimit
               THEN SubSeq(comment, 1, TitleLimit)
                      \o (IF l > TitleLimit THEN <<".", ".", ".">> ELSE <<>>)
               ELSE comment
      i == IndexByte(cut, "\n")
  IN  IF i > 0 THEN SubSeq(cut, 1, i) ELSE cut

\* func (r *Revision) Title(), on r.Comment
Title(comment) ==
  LET l == Len(comment)
  IN  IF l >= TitleLimit
        THEN LET cut == SubSeq(comment, 1, TitleLimit)
                          \o (IF l > TitleLimit THEN <<".", ".", ".">>
                              ELSE <<>>)
                 i == IndexByte(cut, "\n")
             IN  IF i > 0 THEN SubSeq(cut, 1, i) ELSE cut
        ELSE comment

\* the comments Title is called on: n characters, with a line feed at index
\* lf, counted from 0, or with none (lf = n)
TitleComment(n, lf) == [k \in 1..n |-> IF k = lf + 1 THEN "\n" ELSE "a"]

TitleComments == {TitleComment(n, lf) : n \in 0..MaxTitle, lf \in 0..MaxTitle}

\* a Revision with the Comment comment comes to be
TitleNew(comment) ==
  /\ titleRev = NoTitleRev
  /\ titleRev' = [t |-> "rev", Comment |-> comment]
  /\ UNCHANGED title
  /\ UNCHANGED <<collVars, engineVars, codecVars, syncVars, concVars, revVars>>

\* r.Title() is called
TitleCall ==
  /\ titleRev # NoTitleRev
  /\ title = NoTitle
  /\ title' = [t |-> "ok", s |-> Title(titleRev.Comment)]
  /\ UNCHANGED titleRev
  /\ UNCHANGED <<collVars, engineVars, codecVars, syncVars, concVars, revVars>>

NextTitle ==
  \/ \E comment \in TitleComments : TitleNew(comment)
  \/ TitleCall

SpecTitle == Init /\ [][NextTitle]_vars

\* C15: Title() is the Comment cut to its first 72 characters when it has 72
\* or more, with "..." appended when it has more than 72, and then cut at the
\* first line feed of that result when the line feed is at an index i > 0;
\* so a Comment shorter than 72 characters with a line feed at i > 0 has its
\* first i characters as title.
C15_Title ==
  title # NoTitle => title.s = TitleFirstLine(titleRev.Comment)

\* the same for the comments of 72 characters and more
C15_TitleLong ==
  (title # NoTitle /\ Len(titleRev.Comment) >= TitleLimit)
    => title.s = TitleFirstLine(titleRev.Comment)

(***************************************************************************)
(* The sync command.  One step is the part of syncCmd before the loop, one *)
(* pass of the loop, or the return after it; each file system call of a    *)
(* step succeeds or fails.  A file is "absent", "written" (it holds the    *)
(* whole of rev.String()) or "partial" (it was truncated and the write     *)
(* failed).                                                                *)
(***************************************************************************)
MaxSync == 3

\* the lists GetRevisions may return
SyncLists == UNION {[1..n -> SyncRevisions] : n \in 0..MaxSync}

\* lines 95-105: MkdirAll(revisionsDir) and GetRevisions; either may fail
SyncStart(revs, fail) ==
  /\ syncExit = "none"
  /\ IF fail = "none"
       THEN /\ syncExit' = "running"
            /\ syncRevs' = revs
       ELSE /\ syncExit' = "1"
            /\ UNCHANGED syncRevs
  /\ UNCHANGED <<syncPos, files, syncFailed>>
  /\ UNCHANGED <<collVars, engineVars, codecVars, titleVars, concVars, revVars>>

\* one pass of the loop, lines 107-131: MkdirAll(dir), OpenFile with
\* O_CREATE|O_TRUNC|O_WRONLY, WriteString.  The error of WriteString is
\* dropped (line 123) and the closure returns nil.
SyncRevision(fail) ==
  /\ syncExit = "running"
  /\ syncPos < Len(syncRevs)
  /\ LET rev == syncRevs[syncPos + 1]
     IN  /\ syncPos' = syncPos + 1
         /\ files' = CASE fail \in {"mkdir", "open"} -> files
                       [] fail = "write" -> [files EXCEPT ![rev] = "partial"]
                       [] fail = "none" -> [files EXCEPT ![rev] = "written"]
         /\ syncExit' = IF fail \in {"mkdir", "open"} THEN "1" ELSE "running"
         /\ syncFailed' = IF fail # "none" /\ syncFailed = NoFailure
                            THEN [at |-> syncPos + 1, call |-> fail]
                            ELSE syncFailed
  /\ UNCHANGED syncRevs
  /\ UNCHANGED <<collVars, engineVars, codecVars, titleVars, concVars, revVars>>

\* line 132: the loop is over and syncCmd returns; the exit code is 0
SyncReturn ==
  /\ syncExit = "running"
  /\ syncPos = Len(syncRevs)
  /\ syncExit' = "0"
  /\ UNCHANGED <<syncRevs, syncPos, files, syncFailed>>
  /\ UNCHANGED <<collVars, engineVars, codecVars, titleVars, concVars, revVars>>

NextSync ==
  \/ \E revs \in SyncLists : \E fail \in {"none", "mkdir", "fetch"} :
       SyncStart(revs, fail)
  \/ \E fail \in {"none", "mkdir", "open", "write"} : SyncRevision(fail)
  \/ SyncReturn

SpecSync == Init /\ [][NextSync]_vars

\* C16: once MkdirAll, OpenFile or WriteString has failed for a revision,
\* sync has stopped with an error: the exit code is 1, and no file of the
\* tree changes from then on, so the files written before stay and none is
\* written for the revisions that follow.
C16_SyncAborts ==
  /\ [](syncFailed # NoFailure => syncExit = "1")
  /\ [][syncFailed # NoFailure => files' = files]_vars

\* the same for a failure of MkdirAll or OpenFile alone
C16_SyncAbortsOpen ==
  /\ [](syncFailed.call \in {"mkdir", "open"} => syncExit = "1")
  /\ [][syncFailed.call \in {"mkdir", "open"} => files' = files]_vars

(***************************************************************************)
(* Two processes that call Perform against one database.  Each stands at a *)
(* driver call of its Perform or between two Performs; the steps of the    *)
(* two interleave in any order.  They share table and execCount; what each *)
(* Perform returns is as in the engine and is not kept.                    *)
(***************************************************************************)
\* the engine variables the two processes do not use
engineRest == <<pc, op, cur, queue, errs, batch, table0, perfLog, batchExec,
                calls, result, prevNil>>

\* process p calls r.Perform(db): lines 382-384, and line 98 of
\* RevisionPerformed
ConcPerform(p, r) ==
  /\ ppc[p] = "idle"
  /\ pcur' = [pcur EXCEPT ![p] = r]
  /\ ppc' = [ppc EXCEPT ![p] =
               IF r.SQL = "" \/ ~timeParseOk(r.ID) THEN "idle" ELSE "count"]
  /\ UNCHANGED <<table, execCount, overlap>>
  /\ UNCHANGED <<collVars, engineRest, codecVars, titleVars, syncVars, revVars>>

\* the other process stands between its COUNT query and its INSERT for id
otherInside(p, id) ==
  \E q \in Procs \ {p} : ppc[q] \in {"exec", "insert"} /\ pcur[q].ID = id

\* a COUNT query whose result is not looked at
ConcCountIgnored(p, ok) ==
  /\ ppc[p] = "count"
  /\ ppc' = [ppc EXCEPT ![p] = IF ok THEN "exec" ELSE "idle"]
  /\ overlap' = IF otherInside(p, pcur[p].ID)
                  THEN overlap \cup {pcur[p].ID} ELSE overlap
  /\ UNCHANGED <<table, execCount, pcur>>
  /\ UNCHANGED <<collVars, engineRest, codecVars, titleVars, syncVars, revVars>>

\* process p: db.QueryRow(q).Scan(&count) of RevisionPerformed, lines 102-117
ConcCount(p, ok) ==
  /\ ppc[p] = "count"
  /\ ppc' = [ppc EXCEPT ![p] =
               IF countOutcome(pcur[p], ok) = Nil THEN "exec" ELSE "idle"]
  /\ overlap' = IF otherInside(p, pcur[p].ID)
                  THEN overlap \cup {pcur[p].ID} ELSE overlap
  /\ UNCHANGED <<table, execCount, pcur>>
  /\ UNCHANGED <<collVars, engineRest, codecVars, titleVars, syncVars, revVars>>

\* process p: db.Exec(r.SQL), lines 390-392
ConcExec(p, ok) ==
  /\ ppc[p] = "exec"
  /\ IF ok
       THEN /\ execCount[pcur[p].ID] < MaxExec
            /\ execCount' = [execCount EXCEPT ![pcur[p].ID] = @ + 1]
            /\ ppc' = [ppc EXCEPT ![p] = "insert"]
       ELSE /\ execCount' = execCount
            /\ ppc' = [ppc EXCEPT ![p] = "idle"]
  /\ UNCHANGED <<table, pcur, overlap>>
  /\ UNCHANGED <<collVars, engineRest, codecVars, titleVars, syncVars, revVars>>

\* process p: db.Exec(q), q being the INSERT, lines 394-402
ConcInsert(p, ok) ==
  /\ ppc[p] = "insert"
  /\ table' = IF ok THEN table (+) SetToBag({Row(pcur[p])}) ELSE table
  /\ ppc' = [ppc EXCEPT ![p] = "idle"]
  /\ UNCHANGED <<execCount, pcur, overlap>>
  /\ UNCHANGED <<collVars, engineRest, codecVars, titleVars, syncVars, revVars>>

NextConc ==
  \E p \in Procs :
    \/ \E r \in EngineRevisions : ConcPerform(p, r)
    \/ \E ok \in BOOLEAN : ConcCount(p, ok)
    \/ \E ok \in BOOLEAN : ConcExec(p, ok)
    \/ \E ok \in BOOLEAN : ConcInsert(p, ok)

SpecConc == Init /\ [][NextConc]_vars

\* C19: with two processes performing against one database, their steps
\* interleaving at the driver calls, mgrt_revisions holds at most one row for
\* each ID and the SQL of each ID is executed at most once.
C19_ConcurrentOnce ==
  \A id \in ValidIDs \cap EngineIDs :
    RowCount(id) <= 1 /\ execCount[id] <= 1

\* C19, amended: mgrt_revisions holds at most one row for an ID as long as
\* no process issued its COUNT query for the ID while the other stood
\* between its COUNT query and its INSERT for it; and it never holds more
\* rows for an ID than the SQL of the ID was executed.
C19_SerialisedOneRow ==
  \A id \in ValidIDs \cap EngineIDs :
    /\ id \notin overlap => RowCount(id) <= 1
    /\ RowCount(id) <= execCount[id]

\* the two processes have performed the same revision one after the other:
\* the second found the row of the first and both are back
C19_Witness ==
  /\ ppc = [p \in Procs |-> "idle"]
  /\ pcur[1] = pcur[2]
  /\ pcur[1].SQL # ""
  /\ timeParseOk(pcur[1].ID)
  /\ pcur[1].ID \notin overlap
  /\ RowCount(pcur[1].ID) = 1
  /\ execCount[pcur[1].ID] = 1

\* the two processes have overlapped and each has written a row
C19_WitnessOverlap ==
  \E id \in overlap : RowCount(id) = 2

(***************************************************************************)
(* Package revision: Add and Find on the directory of a revision.  The     *)
(* content of up.sql and down.sql is empty after Add and is not kept; the  *)
(* content of _message is a text.                                          *)
(***************************************************************************)
MaxAdds == 2

\* the arguments of Add
RevNames == {<<"n">>, <<"a", ":", "b">>, <<>>}
RevEmails == {<<"e">>}
RevMessages == {<<>>, <<"m">>, <<"m", "\n">>, <<"m", "\n", "m">>}

\* the call of Add that fails, if one does
RevFailures == {"none", "mkdir", "up", "down", "open", "author", "message"}

\* fmt.Sprintf("%s <%s>", name, email)
authorOf(name, email) == name \o <<" ", "<">> \o email \o <<">">>

\* the text of fmt.Fprintf(f, "Author: %s\n", author)
authorLine(author) == kwAuthor \o <<":", " ">> \o author \o <<"\n">>

\* a write of data at offset off of a file that holds old and is not truncated
overlay(old, off, data) ==
  SubSeq(old, 1, off) \o data \o SubSeq(old, off + Len(data) + 1, Len(old))

\* func Add(msg, name, email) on the directory dir named by id
Add(dir, id, msg, name, email, fail) ==
  LET author == authorOf(name, email)
      err == [t |-> "err"]
      d1 == [dir EXCEPT !.exists = TRUE]
      d2 == [d1 EXCEPT !.up = TRUE]
      d3 == [d2 EXCEPT !.down = TRUE]
      \* os.OpenFile with O_CREATE|O_WRONLY: the content stays
      d4 == [d3 EXCEPT !.hasMsg = TRUE]
      \* the error of Fprintf is overwritten or never looked at
      off == IF fail = "author" THEN 0 ELSE Len(authorLine(author))
      d5 == IF fail = "author" THEN d4
            ELSE [d4 EXCEPT !.message = overlay(@, 0, authorLine(author))]
      d6 == IF msg = <<>> THEN d5
            ELSE [d5 EXCEPT !.message = overlay(@, off, msg)]
  IN  CASE fail = "mkdir" -> [res |-> err, dir |-> dir]
        [] fail = "up" -> [res |-> err, dir |-> d1]
        [] fail = "down" -> [res |-> err, dir |-> d2]
        [] fail = "open" -> [res |-> err, dir |-> d3]
        [] fail = "message" /\ msg # <<>> -> [res |-> err, dir |-> d5]
        [] OTHER ->
             [res |-> [t |-> "ok", ID |-> id, Author |-> author,
                       Message |-> msg],
              dir |-> d6]

\* bufio.ScanLines over the whole of text: the lines without their line feed;
\* a last line that is empty is no line
RECURSIVE scanLines(_)
scanLines(text) ==
  IF text = <<>> THEN <<>>
  ELSE LET i == IndexByte(text, "\n")
       IN  IF i < 0 THEN <<text>>
           ELSE <<SubSeq(text, 1, i)>>
                  \o scanLines(SubSeq(text, i + 2, Len(text)))

\* strings.HasPrefix
HasPrefix(s, prefix) ==
  Len(s) >= Len(prefix) /\ SubSeq(s, 1, Len(prefix)) = prefix

\* strings.Split(s, sep) for a separator of one character
RECURSIVE Split(_, _)
Split(s, sep) ==
  LET i == IndexByte(s, sep)
  IN  IF i < 0 THEN <<s>>
      ELSE <<SubSeq(s, 1, i)>> \o Split(SubSeq(s, i + 2, Len(s)), sep)

\* strings.TrimSuffix(s, "\n")
TrimSuffixLF(s) ==
  IF s # <<>> /\ s[Len(s)] = "\n" THEN SubSeq(s, 1, Len(s) - 1) ELSE s

\* the lines ls from the k-th on, each followed by a line feed (lines 206-209)
RECURSIVE messageBuf(_, _)
messageBuf(ls, k) ==
  IF k > Len(ls) THEN <<>> ELSE ls[k] \o <<"\n">> \o messageBuf(ls, k + 1)

\* a resolveFromPath that takes the author to be all that follows "Author:"
resolveFromPathWholeLine(dir, id) ==
  LET err == [t |-> "err", id |-> id]
      ls == scanLines(dir.message)
      line == IF ls = <<>> THEN <<>> ELSE ls[1]
  IN  IF ~dir.exists \/ ~dir.up \/ ~dir.down \/ ~dir.hasMsg THEN err
      ELSE IF ~HasPrefix(line, kwAuthor \o <<":">>) THEN err
      ELSE [t |-> "ok", id |-> id,
            Author |-> TrimSpace(SubSeq(line, 8, Len(line))),
            Message |-> TrimSuffixLF(messageBuf(ls, 2))]

\* func resolveFromPath(path) on the directory dir named by id
resolveFromPath(dir, id) ==
  LET err == [t |-> "err", id |-> id]
      ls == scanLines(dir.message)
      \* s.Scan(); line := s.Text()
      line == IF ls = <<>> THEN <<>> ELSE ls[1]
  IN  IF ~dir.exists \/ ~dir.up \/ ~dir.down \/ ~dir.hasMsg THEN err
      ELSE IF ~HasPrefix(line, kwAuthor \o <<":">>) THEN err
      ELSE [t |-> "ok", id |-> id,
            Author |-> TrimSpace(Split(line, ":")[2]),
            Message |-> TrimSuffixLF(messageBuf(ls, 2))]

\* a second goes by
RevTick ==
  /\ now < MaxTime
  /\ now' = now + 1
  /\ UNCHANGED <<revDirs, adds, added, found, oldest, latest>>
  /\ UNCHANGED <<collVars, engineVars, codecVars, titleVars, syncVars, concVars>>

\* Add(msg, name, email) is called
RevAdd(msg, name, email, fail) ==
  /\ adds < MaxAdds
  /\ fail = "message" => msg # <<>>
  /\ LET id == FormatInt(now)
         res == Add(revDirs[id], now, msg, name, email, fail)
     IN  /\ revDirs' = [revDirs EXCEPT ![id] = res.dir]
         /\ added' = IF res.res.t = "ok"
                       THEN [res.res EXCEPT !.t = "ok"] @@
                              [name |-> name, email |-> email,
                               first |-> ~revDirs[id].hasMsg,
                               wrote |-> fail = "none"]
                       ELSE res.res
  /\ adds' = adds + 1
  /\ found' = NoFound
  /\ oldest' = NoListed
  /\ latest' = NoListed
  /\ UNCHANGED now
  /\ UNCHANGED <<collVars, engineVars, codecVars, titleVars, syncVars, concVars>>

\* Find(id) is called
RevFind(id) ==
  /\ found = NoFound
  /\ found' = resolveFromPath(revDirs[id], id)
  /\ UNCHANGED <<now, revDirs, adds, added, oldest, latest>>
  /\ UNCHANGED <<collVars, engineVars, codecVars, titleVars, syncVars, concVars>>

\* append_ and prepend_, lines 25-31
append_(revisions, r) == Append(revisions, r)
prepend_(revisions, r) == <<r>> \o revisions

\* the order of file names: byte by byte, a prefix first
RECURSIVE nameLess(_, _)
nameLess(a, b) ==
  IF a = <<>> THEN b # <<>>
  ELSE IF b = <<>> THEN FALSE
  ELSE IF Head(a) = Head(b) THEN nameLess(Tail(a), Tail(b))
  ELSE DigitVal[Head(a)] < DigitVal[Head(b)]

\* the names in S, sorted
RECURSIVE sortNames(_)
sortNames(S) ==
  IF S = {} THEN <<>>
  ELSE LET m == CHOOSE x \in S : \A y \in S \ {x} : nameLess(x, y)
       IN  <<m>> \o sortNames(S \ {m})

\* ioutil.ReadDir: the names of the directory entries, sorted by name
ReadDir(dirs) == sortNames({d \in DOMAIN dirs : dirs[d].exists})

\* the slice made at line 232: an entry is nil until it is assigned
NilRevision == [t |-> "nil"]

\* func walk(f appendFunc): every entry of the directory is resolved and
\* stored at its index; f, the name of the appendFunc, is not used. root:
\* the revisions directory can be read
revWalk(f, root, dirs) ==
  LET names == ReadDir(dirs)
      resolved == [i \in 1..Len(names) |->
                     resolveFromPath(dirs[names[i]], names[i])]
  IN  IF ~root \/ \E i \in 1..Len(names) : resolved[i].t = "err"
        THEN [t |-> "err", revs |-> <<>>]
        ELSE [t |-> "ok", revs |-> resolved]

\* func Oldest()
Oldest(root, dirs) == revWalk("append_", root, dirs)

\* func Latest()
Latest(root, dirs) == revWalk("prepend_", root, dirs)

\* Oldest() is called; the revisions directory is there once a revision
\* was added to it
RevOldest(root) ==
  /\ oldest = NoListed
  /\ ReadDir(revDirs) # <<>> => root
  /\ oldest' = Oldest(root, revDirs)
  /\ UNCHANGED <<now, revDirs, adds, added, found, latest>>
  /\ UNCHANGED <<collVars, engineVars, codecVars, titleVars, syncVars, concVars>>

\* Latest() is called
RevLatest(root) ==
  /\ latest = NoListed
  /\ ReadDir(revDirs) # <<>> => root
  /\ latest' = Latest(root, revDirs)
  /\ UNCHANGED <<now, revDirs, adds, added, found, oldest>>
  /\ UNCHANGED <<collVars, engineVars, codecVars, titleVars, syncVars, concVars>>

NextRev ==
  \/ RevTick
  \/ \E msg \in RevMessages : \E name \in RevNames : \E email \in RevEmails :
       \E fail \in RevFailures : RevAdd(msg, name, email, fail)
  \/ \E id \in DirNames : RevFind(id)
  \/ \E root \in BOOLEAN : RevOldest(root)
  \/ \E root \in BOOLEAN : RevLatest(root)

SpecRev == Init /\ [][NextRev]_vars

\* the last Add returned a Revision; dirOfAdded is its directory
addedOk == added # NoAdded /\ added.t = "ok"
dirOfAdded == revDirs[FormatInt(added.ID)]

\* C20: after Add(msg, name, email) succeeds the directory named by the new
\* ID holds the up, down and message files, the message file is exactly
\* "Author: name <email>", a line feed, and msg, and Find of that ID returns
\* a Revision whose Author is "name <email>" and whose Message is msg.  The
\* directory is new and every write of Add went through.
C20_AddFind ==
  (addedOk /\ added.first /\ added.wrote) =>
    /\ dirOfAdded.exists /\ dirOfAdded.up /\ dirOfAdded.down
    /\ dirOfAdded.hasMsg
    /\ dirOfAdded.message
         = authorLine(authorOf(added.name, added.email)) \o added.Message
    /\ (found # NoFound /\ found.id = FormatInt(added.ID))
         => /\ found.t = "ok"
            /\ found.Author = authorOf(added.name, added.email)
            /\ found.Message = added.Message

\* the same for the calls the code handles: the name is not empty and holds
\* no ':', and msg does not end with a line feed
C20_AddFindPlain ==
  ( /\ addedOk
    /\ added.name # <<>>
    /\ IndexByte(added.name, ":") < 0
    /\ TrimSuffixLF(added.Message) = added.Message )
  => C20_AddFind

\* the sequence s from its last element to its first
Reverse(s) == [i \in 1..Len(s) |-> s[Len(s) + 1 - i]]

\* C22: when the revisions directory resolves without error, Latest() returns
\* the revisions of Oldest() in the reverse order, and neither result holds
\* a nil entry.
C22_LatestReversed ==
  (oldest # NoListed /\ latest # NoListed /\ oldest.t = "ok"
     /\ latest.t = "ok")
    => /\ latest.revs = Reverse(oldest.revs)
       /\ \A i \in 1..Len(oldest.revs) : oldest.revs[i] # NilRevision
       /\ \A i \in 1..Len(latest.revs) : latest.revs[i] # NilRevision

\* what holds of the two: the same revisions in the same order, that of the
\* directory names, with no nil entry
C22_LatestSameOrder ==
  (oldest # NoListed /\ latest # NoListed /\ oldest.t = "ok"
     /\ latest.t = "ok")
    => /\ latest.revs = oldest.revs
       /\ Len(oldest.revs) = Len(ReadDir(revDirs))
       /\ \A i \in 1..Len(oldest.revs) :
            /\ oldest.revs[i] # NilRevision
            /\ oldest.revs[i].id = ReadDir(revDirs)[i]

====
